---- MODULE Spec2Model ----
(***************************************************************************)
(* Model of src/app.py (LLM Product Page Auditor): the JSON-LD analyzers,  *)
(* score_page and the page loop of run_audit.                              *)
(*                                                                         *)
(* Three specifications share the variables:                               *)
(*   SpecSchema  analyze_schema_completeness on a list of JSON-LD records  *)
(*   SpecPage    score_page on one parsed page                             *)
(*   Spec        run_audit: discovery, filtering, the fetch loop, the sort *)
(***************************************************************************)
EXTENDS Integers, Sequences, FiniteSets, TLC

VARIABLES
    pc,          \* which function is running and where it stands
    params,      \* run_audit's arguments
    discovered,  \* what discover_urls returned
    urls,        \* run_audit's local urls after filtering and truncation
    stats,       \* run_audit's debug counters of the filtering stages
    i,           \* number of loop iterations of run_audit completed
    results,     \* run_audit's local results
    fetched,     \* what client.get did for each url so far (the network's answers)
    ret,         \* what run_audit returned
    page,        \* score_page's input (the parsed html)
    data,        \* score_page's return value
    jsonlds,     \* analyze_schema_completeness's input
    analysis,    \* analyze_schema_completeness's return value
    csv          \* the CSV export of the results page: its rows, or that it raised

vars == <<pc, params, discovered, urls, stats, i, results, fetched, ret,
          page, data, jsonlds, analysis, csv>>

None == [none |-> TRUE]

(***************************************************************************)
(* JSON values as json.loads yields them.  A value is absent (the key is   *)
(* not in the dict), a string or a list of n elements, or a dict with the  *)
(* given keys.  Python truthiness: non-empty string, list or dict.         *)
(***************************************************************************)
Absent == [kind |-> "absent", n |-> 0, keys |-> {}]
Str(n) == [kind |-> "str", n |-> n, keys |-> {}]
List(n) == [kind |-> "list", n |-> n, keys |-> {}]
Dict(keys) == [kind |-> "dict", n |-> Cardinality(keys), keys |-> keys]

\* `field in product`
HasKey(d, field) == d.f[field].kind # "absent"
\* `field in product and product[field]`
Truthy(v) == v.kind # "absent" /\ v.n > 0

\* The "@type" of a record: absent, one string, or a list of strings.
TypeAbsent == [kind |-> "absent", names |-> <<>>]
TypeStr(s) == [kind |-> "str", names |-> <<s>>]
TypeList(ss) == [kind |-> "list", names |-> ss]

FieldNames == {"name", "description", "image", "brand", "offers",
               "sku", "gtin", "mpn", "aggregateRating", "review", "mainEntity"}

\* essential_fields and recommended_fields: field -> label, in dict order
essential_fields ==
    << <<"name", "Nom du produit">>, <<"description", "Description detaillee">>,
       <<"image", "Images">>, <<"brand", "Marque">>,
       <<"offers", "Informations de prix">> >>
recommended_fields ==
    << <<"sku", "SKU/Reference">>, <<"gtin", "Code-barres GTIN/EAN">>,
       <<"mpn", "Numero fabricant">>, <<"aggregateRating", "Note moyenne">>,
       <<"review", "Avis clients">> >>

EssentialPoints == 2
RecommendedPoints == 1
OfferPricePoints == 2
OfferAvailabilityPoints == 1

\* d.get("@type") == s
TypeIs(d, s) == d.type.kind = "str" /\ d.type.names[1] = s
\* isinstance(d.get("@type"), list) and s in d.get("@type")
TypeContains(d, s) ==
    d.type.kind = "list" /\ \E k \in DOMAIN d.type.names : d.type.names[k] = s

\* the filter of the list comprehension product_schemas
IsProductSchemaAnyTyped(d) == d.type.kind # "absent"
IsProductSchema(d) ==
    \/ TypeIs(d, "Product") \/ TypeIs(d, "ProductModel")
    \/ TypeContains(d, "Product")

product_schemas(js) == SelectSeq(js, IsProductSchema)

FieldPresent(product, field) ==
    HasKey(product, field) /\ Truthy(product.f[field])

\* the labels appended to missing by one of the two loops
MissingOf(product, fields, prefix) ==
    LET Miss(fl) == ~FieldPresent(product, fl[1])
        absent == SelectSeq(fields, Miss)
    IN  [k \in DOMAIN absent |-> <<prefix, absent[k][2]>>]

\* the points the two loops add to score
FieldPoints_one_each(product, fields, points) ==
    Cardinality({k \in DOMAIN fields : FieldPresent(product, fields[k][1])})
FieldPoints(product, fields, points) ==
    points * Cardinality({k \in DOMAIN fields : FieldPresent(product, fields[k][1])})

\* the points of the block "Verifier la completude de l'offre si presente"
OfferPoints_availability_needs_price(product) ==
    IF HasKey(product, "offers") /\ product.f["offers"].kind = "dict"
       /\ {"price", "priceCurrency"} \subseteq product.f["offers"].keys
    THEN OfferPricePoints
         + (IF "availability" \in product.f["offers"].keys
            THEN OfferAvailabilityPoints ELSE 0)
    ELSE 0
OfferPoints(product) ==
    IF HasKey(product, "offers") /\ product.f["offers"].kind = "dict"
    THEN (IF {"price", "priceCurrency"} \subseteq product.f["offers"].keys
          THEN OfferPricePoints ELSE 0)
         + (IF "availability" \in product.f["offers"].keys
            THEN OfferAvailabilityPoints ELSE 0)
    ELSE 0

\* total_points = len(essential_fields) * 2 + len(recommended_fields)
total_points ==
    Len(essential_fields) * EssentialPoints + Len(recommended_fields) * RecommendedPoints

\* the local score just before completeness is computed
schema_score(product) ==
    FieldPoints(product, essential_fields, EssentialPoints)
    + FieldPoints(product, recommended_fields, RecommendedPoints)
    + OfferPoints(product)

\* int((score / total_points) * 100): the float quotient times 100, truncated.
\* For every score in 0..18 and total_points = 15 the float result equals the
\* integer quotient below.
Completeness_rounded(score) == (2 * score * 100 + total_points) \div (2 * total_points)
Completeness(score) == (score * 100) \div total_points

analyze_schema_completeness(js) ==
    IF product_schemas(js) = <<>>
    THEN [found |-> FALSE, completeness |-> 0, missing |-> <<>>]
    ELSE LET product == product_schemas(js)[1]
         IN  [found |-> TRUE,
              completeness |-> Completeness(schema_score(product)),
              missing |-> MissingOf(product, essential_fields, "Champ essentiel")
                          \o MissingOf(product, recommended_fields, "Champ recommande"),
              schema |-> product]

\* has_product_schema(jsonlds)
has_product_schema(js) ==
    \E k \in DOMAIN js : TypeIs(js[k], "Product") \/ TypeContains(js[k], "Product")

WellStructuredMin == 5

analyze_faq_schema_last_record(js) ==
    LET IsFaq(d) == TypeIs(d, "FAQPage")
        faq_schemas == SelectSeq(js, IsFaq)
    IN  IF faq_schemas = <<>>
        THEN [found |-> FALSE, question_count |-> 0]
        ELSE LET questions == faq_schemas[Len(faq_schemas)].f["mainEntity"]
             IN  [found |-> TRUE,
                  question_count |-> IF questions.kind = "list" THEN questions.n ELSE 0,
                  well_structured |->
                      questions.kind = "list" /\ questions.n >= WellStructuredMin]
analyze_faq_schema(js) ==
    LET IsFaq(d) == TypeIs(d, "FAQPage")
        faq_schemas == SelectSeq(js, IsFaq)
    IN  IF faq_schemas = <<>>
        THEN [found |-> FALSE, question_count |-> 0]
        ELSE LET questions ==
                     IF HasKey(faq_schemas[1], "mainEntity")
                     THEN faq_schemas[1].f["mainEntity"] ELSE List(0)
             IN  [found |-> TRUE,
                  question_count |->
                      IF questions.kind = "list" THEN questions.n ELSE 1,
                  well_structured |->
                      IF questions.kind = "list"
                      THEN questions.n >= WellStructuredMin ELSE FALSE]

(***************************************************************************)
(* Records the model draws its inputs from.                                *)
(***************************************************************************)
MaxQuestions == 6

NoFields == [k \in FieldNames |-> Absent]
Rec(type, fields) == [type |-> type, f |-> fields @@ NoFields]

OfferKeys == {"price", "priceCurrency", "availability", "@type"}
OfferValues == {Absent, Str(0), List(1)} \cup {Dict(K) : K \in SUBSET OfferKeys}

\* every Product record over the checklist: each field absent or set, name
\* also set to the empty string, offers of every shape
ProductFieldSets ==
    { [name |-> n, description |-> d, image |-> im, brand |-> b, offers |-> o,
       sku |-> r[1], gtin |-> r[2], mpn |-> r[3], aggregateRating |-> r[4],
       review |-> r[5]] :
      n \in {Absent, Str(0), Str(1)}, d \in {Absent, Str(1)},
      im \in {Absent, List(1)}, b \in {Absent, Str(1)}, o \in OfferValues,
      r \in [1..5 -> {Absent, Str(1)}] }

FullFields ==
    [name |-> Str(1), description |-> Str(1), image |-> List(1), brand |-> Str(1),
     offers |-> Dict({"price", "priceCurrency", "availability"}),
     sku |-> Str(1), gtin |-> Str(1), mpn |-> Str(1), aggregateRating |-> Dict({"@type"}),
     review |-> List(1)]
EssentialOnly ==
    [name |-> Str(1), description |-> Str(1), image |-> List(1), brand |-> Str(1),
     offers |-> Dict({"price", "priceCurrency"})]
NameOnly == [name |-> Str(1)]

RecordTypes ==
    {TypeAbsent, TypeStr("Product"), TypeStr("ProductModel"), TypeStr("FAQPage"),
     TypeStr("BreadcrumbList"), TypeStr("Thing"), TypeList(<<"Product">>),
     TypeList(<<"Thing", "Product">>), TypeList(<<"ProductModel">>), TypeList(<<>>)}

FullProduct == Rec(TypeStr("Product"), FullFields)
BareProduct == Rec(TypeStr("Product"), <<>>)
Thing == Rec(TypeStr("Thing"), FullFields)

SchemaRecords ==
    {Rec(TypeStr("Product"), fs) : fs \in ProductFieldSets}
    \cup {Rec(t, fs) : t \in RecordTypes, fs \in {<<>>, NameOnly, EssentialOnly, FullFields}}

\* the lists of records analyze_schema_completeness is applied to
SchemaInputs ==
    {<<>>} \cup {<<r>> : r \in SchemaRecords}
    \cup {<<Thing, r>> : r \in SchemaRecords}
    \cup {<<r, q>> : r \in {Rec(t, NameOnly) : t \in RecordTypes},
                     q \in {FullProduct, BareProduct}}

Idle ==
    /\ params = None /\ discovered = <<>> /\ urls = <<>> /\ stats = None
    /\ i = 0 /\ results = <<>> /\ fetched = <<>> /\ ret = None /\ csv = None

\* the values of a FAQPage record's mainEntity: absent, one Question (a
\* dict), a string, or a list of 0..MaxQuestions questions
MainEntityValues ==
    {Absent, Dict({"@type"}), Str(1), Str(0)} \cup {List(n) : n \in 0..MaxQuestions}

FaqRecords == {Rec(TypeStr("FAQPage"), [mainEntity |-> v]) : v \in MainEntityValues}

\* the lists of records analyze_faq_schema is applied to: none, or one or
\* two FAQPage records, behind or before a record of another type
FaqInputs ==
    {<<>>, <<Thing>>, <<FullProduct, Thing>>}
    \cup {<<r>> : r \in FaqRecords}
    \cup {<<Thing, r>> : r \in FaqRecords}
    \cup {<<r, q>> : r, q \in FaqRecords}
    \cup {<<r, Rec(TypeList(<<"FAQPage">>), [mainEntity |-> List(MaxQuestions)])>> :
           r \in FaqRecords}

(***************************************************************************)
(* SpecSchema: analyze_schema_completeness and analyze_faq_schema as pure  *)
(* functions of the list of JSON-LD records.                               *)
(***************************************************************************)
InitSchema ==
    /\ \/ pc = "schema" /\ jsonlds \in SchemaInputs
       \/ pc = "faq" /\ jsonlds \in FaqInputs
    /\ analysis = None
    /\ page = None /\ data = None
    /\ Idle

AnalyzeSchema ==
    /\ pc = "schema"
    /\ analysis' = analyze_schema_completeness(jsonlds)
    /\ pc' = "schema_done"
    /\ UNCHANGED <<params, discovered, urls, stats, i, results, fetched, ret,
                   page, data, jsonlds, csv>>

AnalyzeFaq ==
    /\ pc = "faq"
    /\ analysis' = analyze_faq_schema(jsonlds)
    /\ pc' = "faq_done"
    /\ UNCHANGED <<params, discovered, urls, stats, i, results, fetched, ret,
                   page, data, jsonlds, csv>>

NextSchema == AnalyzeSchema \/ AnalyzeFaq

SpecSchema == InitSchema /\ [][NextSchema]_vars

(***************************************************************************)
(* The parsed page.  blocks are the <script type="application/ld+json">    *)
(* elements in document order, each as json.loads sees it; the other       *)
(* fields are what the analyzers read from the soup and the lower-cased    *)
(* text: tag counts, lengths (-1: no such tag) and, for each keyword list, *)
(* whether the text contains one of its keywords.                          *)
(***************************************************************************)
DictBlock(r) == [shape |-> "dict", items |-> << [isdict |-> TRUE, rec |-> r] >>]
ListBlock(es) == [shape |-> "list", items |-> es]
OtherBlock == [shape |-> "other", items |-> <<>>]
BadBlock == [shape |-> "bad", items |-> <<>>]

\* what one iteration of the loop of extract_jsonld adds to out
BlockRecords_all_items(b) ==
    IF b.shape = "list" THEN [k \in DOMAIN b.items |-> b.items[k].rec]
    ELSE IF b.shape = "dict" THEN <<b.items[1].rec>>
    ELSE <<>>
BlockRecords(b) ==
    IF b.shape = "list"
    THEN LET IsDict(e) == e.isdict
             ds == SelectSeq(b.items, IsDict)
         IN  [k \in DOMAIN ds |-> ds[k].rec]
    ELSE IF b.shape = "dict" THEN <<b.items[1].rec>>
    ELSE <<>>

RECURSIVE extract_jsonld(_)
extract_jsonld(blocks) ==
    IF blocks = <<>> THEN <<>>
    ELSE BlockRecords(Head(blocks)) \o extract_jsonld(Tail(blocks))

SufficientWords == 300
MinParagraphs == 3

analyze_content_quality(pg) ==
    [word_count |-> pg.words,
     sufficient_content |-> pg.words >= SufficientWords,
     has_h1 |-> pg.h1 > 0,
     has_hierarchy |-> pg.h2 > 0 \/ pg.h3 > 0,
     heading_count |-> pg.h1 + pg.h2 + pg.h3,
     has_lists |-> pg.lists > 0,
     has_tables |-> pg.tables > 0,
     list_count |-> pg.lists,
     table_count |-> pg.tables,
     has_paragraphs |-> pg.p >= MinParagraphs,
     has_comparison |-> pg.kw_comparison,
     has_usage_guide |-> pg.kw_usage,
     has_specs |-> pg.kw_specs]

analyze_authority_signals(pg) ==
    [has_author |-> pg.rel_author \/ pg.kw_par,
     has_publish_date |-> pg.time_tags > 0,
     has_certifications |-> pg.kw_cert,
     has_contact_info |-> pg.kw_contact,
     has_external_links |-> pg.nofollow]

MetaDescriptionLen == 50
MinOpenGraph == 3
MinTwitter == 2
TitleMin == 30
TitleMax == 70

analyze_metadata(pg) ==
    [has_meta_description |-> pg.meta_desc # -1 /\ pg.meta_desc > MetaDescriptionLen,
     has_open_graph |-> pg.og_tags >= MinOpenGraph,
     has_twitter_cards |-> pg.twitter_tags >= MinTwitter,
     has_title |-> pg.title_len # -1 /\ TitleMin <= pg.title_len /\ pg.title_len <= TitleMax,
     has_canonical |-> pg.canonical]

\* int(x * 0.25): 0.25 is exact in binary floating point
Quarter(x) == x \div 4

\* section "1. DONNEES STRUCTUREES (40 points max)"
structured_data_score_faq_flat(sa, faq, has_breadcrumb) ==
    (IF sa.found THEN Quarter(sa.completeness) ELSE 0)
    + (IF faq.found THEN 5 ELSE 0)
    + (IF has_breadcrumb THEN 5 ELSE 0)
structured_data_score(sa, faq, has_breadcrumb) ==
    (IF sa.found THEN Quarter(sa.completeness) ELSE 0)
    + (IF faq.found THEN (IF faq.well_structured THEN 10 ELSE 5) ELSE 0)
    + (IF has_breadcrumb THEN 5 ELSE 0)

structured_data_findings(sa, faq, has_breadcrumb) ==
    [has_product_schema |-> sa.found, has_faq_schema |-> faq.found,
     has_breadcrumb |-> has_breadcrumb]
    @@ (IF sa.found THEN [product_schema_completeness |-> sa.completeness] ELSE <<>>)
    @@ (IF faq.found THEN [faq_questions |-> faq.question_count] ELSE <<>>)

\* section "2. QUALITE DU CONTENU (30 points max)"
content_score_counts_paragraphs(cq) ==
    (IF cq.sufficient_content THEN 10 ELSE 0)
    + (IF cq.has_h1 /\ cq.has_hierarchy THEN 5 ELSE 0)
    + (IF cq.has_lists THEN 3 ELSE 0)
    + (IF cq.has_tables THEN 5 ELSE 0)
    + (IF cq.has_comparison THEN 3 ELSE 0)
    + (IF cq.has_usage_guide THEN 2 ELSE 0)
    + (IF cq.has_specs THEN 2 ELSE 0)
    + (IF cq.has_paragraphs THEN 1 ELSE 0)
content_score(cq) ==
    (IF cq.sufficient_content THEN 10 ELSE 0)
    + (IF cq.has_h1 /\ cq.has_hierarchy THEN 5 ELSE 0)
    + (IF cq.has_lists THEN 3 ELSE 0)
    + (IF cq.has_tables THEN 5 ELSE 0)
    + (IF cq.has_comparison THEN 3 ELSE 0)
    + (IF cq.has_usage_guide THEN 2 ELSE 0)
    + (IF cq.has_specs THEN 2 ELSE 0)

\* section "3. AUTORITE & CREDIBILITE (15 points max)"
authority_score(au) ==
    (IF au.has_author THEN 3 ELSE 0)
    + (IF au.has_publish_date THEN 3 ELSE 0)
    + (IF au.has_certifications THEN 5 ELSE 0)
    + (IF au.has_contact_info THEN 4 ELSE 0)

\* section "4. METADONNEES (15 points max)"
metadata_score(md) ==
    (IF md.has_meta_description THEN 5 ELSE 0)
    + (IF md.has_open_graph THEN 4 ELSE 0)
    + (IF md.has_twitter_cards THEN 2 ELSE 0)
    + (IF md.has_title THEN 2 ELSE 0)
    + (IF md.has_canonical THEN 2 ELSE 0)

\* total_score = structured_data_score + content_score + authority_score + metadata_score
total_score_capped(sd, co, au, md) ==
    IF sd + co + au + md > 100 THEN 100 ELSE sd + co + au + md
total_score(sd, co, au, md) == sd + co + au + md

(***************************************************************************)
(* Recommendations.  An element of a recommendations list is a dict        *)
(* (priority, category, text) or, for an error page, a plain string.  text *)
(* names the message; num and cited carry what the f-string interpolates.  *)
(***************************************************************************)
RecDict(priority, category, text, num, cited) ==
    [kind |-> "dict", priority |-> priority, category |-> category, text |-> text,
     num |-> num, cited |-> cited]
RecStr(text) ==
    [kind |-> "str", priority |-> "", category |-> "", text |-> text,
     num |-> 0, cited |-> <<>>]

CompletenessThreshold == 70
CitedMissing == 3

\* lst[:n]
Prefix_one_more(lst, n) == SubSeq(lst, 1, IF Len(lst) < n + 1 THEN Len(lst) ELSE n + 1)
Prefix(lst, n) == SubSeq(lst, 1, IF Len(lst) < n THEN Len(lst) ELSE n)

\* `if cond: recommendations.append(rec)`
When(cond, rec) == IF cond THEN <<rec>> ELSE <<>>

\* "Recommandations critiques": the if/elif on the schema, then the content length
critical_recommendations_content_first(sa, cq) ==
    When(~cq.sufficient_content,
         RecDict("CRITIQUE", "Contenu", "Enrichir le contenu", cq.word_count, <<>>))
    \o (IF ~sa.found
        THEN << RecDict("CRITIQUE", "Donnees Structurees", "Ajouter schema.org Product", 0, <<>>) >>
        ELSE IF sa.completeness < CompletenessThreshold
        THEN << RecDict("CRITIQUE", "Donnees Structurees", "Completer le schema Product",
                        sa.completeness, Prefix(sa.missing, CitedMissing)) >>
        ELSE <<>>)
critical_recommendations_two_ifs(sa, cq) ==
    When(~sa.found,
         RecDict("CRITIQUE", "Donnees Structurees", "Ajouter schema.org Product", 0, <<>>))
    \o When(sa.completeness < CompletenessThreshold,
            RecDict("CRITIQUE", "Donnees Structurees", "Completer le schema Product",
                    sa.completeness, Prefix(sa.missing, CitedMissing)))
    \o When(~cq.sufficient_content,
            RecDict("CRITIQUE", "Contenu", "Enrichir le contenu", cq.word_count, <<>>))
critical_recommendations(sa, cq) ==
    (IF ~sa.found
     THEN << RecDict("CRITIQUE", "Donnees Structurees", "Ajouter schema.org Product", 0, <<>>) >>
     ELSE IF sa.completeness < CompletenessThreshold
     THEN << RecDict("CRITIQUE", "Donnees Structurees", "Completer le schema Product",
                     sa.completeness, Prefix(sa.missing, CitedMissing)) >>
     ELSE <<>>)
    \o When(~cq.sufficient_content,
            RecDict("CRITIQUE", "Contenu", "Enrichir le contenu", cq.word_count, <<>>))

\* "Recommandations importantes"
important_recommendations_faq_absent_only(faq, cq, md) ==
    When(~faq.found,
         RecDict("IMPORTANT", "Donnees Structurees", "Ajouter une FAQ structuree", 0, <<>>))
    \o When(~cq.has_tables /\ ~cq.has_specs,
            RecDict("IMPORTANT", "Contenu", "Ajouter un tableau de specifications", 0, <<>>))
    \o When(~cq.has_hierarchy,
            RecDict("IMPORTANT", "Contenu", "Structurer le contenu avec des titres H2/H3", 0, <<>>))
    \o When(~md.has_meta_description,
            RecDict("IMPORTANT", "Metadonnees", "Ajouter une meta description", 0, <<>>))
important_recommendations(faq, cq, md) ==
    When(~faq.found \/ ~faq.well_structured,
         RecDict("IMPORTANT", "Donnees Structurees", "Ajouter une FAQ structuree", 0, <<>>))
    \o When(~cq.has_tables /\ ~cq.has_specs,
            RecDict("IMPORTANT", "Contenu", "Ajouter un tableau de specifications", 0, <<>>))
    \o When(~cq.has_hierarchy,
            RecDict("IMPORTANT", "Contenu", "Structurer le contenu avec des titres H2/H3", 0, <<>>))
    \o When(~md.has_meta_description,
            RecDict("IMPORTANT", "Metadonnees", "Ajouter une meta description", 0, <<>>))

\* "Recommandations recommandees"
recommended_recommendations(au, cq, has_breadcrumb) ==
    When(~au.has_certifications,
         RecDict("RECOMMANDE", "Autorite", "Mentionner les certifications", 0, <<>>))
    \o When(~cq.has_comparison,
            RecDict("RECOMMANDE", "Contenu", "Ajouter une section comparative", 0, <<>>))
    \o When(~has_breadcrumb,
            RecDict("RECOMMANDE", "Donnees Structurees", "Ajouter un fil d'Ariane", 0, <<>>))
    \o When(~au.has_author \/ ~au.has_publish_date,
            RecDict("RECOMMANDE", "Autorite", "Indiquer la date et l'auteur", 0, <<>>))

\* "Bonus"
bonus_recommendations_swapped(cq, md) ==
    When(~cq.has_usage_guide,
         RecDict("BONUS", "Contenu", "Ajouter un guide d'utilisation", 0, <<>>))
    \o When(cq.has_lists,
            RecDict("BONUS", "Contenu", "Continuer a utiliser des listes a puces", 0, <<>>))
    \o When(~md.has_open_graph,
            RecDict("BONUS", "Metadonnees", "Ajouter les balises Open Graph", 0, <<>>))
bonus_recommendations(cq, md) ==
    When(cq.has_lists,
         RecDict("BONUS", "Contenu", "Continuer a utiliser des listes a puces", 0, <<>>))
    \o When(~cq.has_usage_guide,
            RecDict("BONUS", "Contenu", "Ajouter un guide d'utilisation", 0, <<>>))
    \o When(~md.has_open_graph,
            RecDict("BONUS", "Metadonnees", "Ajouter les balises Open Graph", 0, <<>>))

\* section "GENERATION DES RECOMMANDATIONS PRIORISEES"
recommendations_of(sa, faq, cq, au, md, has_breadcrumb) ==
    critical_recommendations(sa, cq)
    \o important_recommendations(faq, cq, md)
    \o recommended_recommendations(au, cq, has_breadcrumb)
    \o bonus_recommendations(cq, md)

score_page(pg) ==
    LET js == extract_jsonld(pg.blocks)
        schema_analysis == analyze_schema_completeness(js)
        faq_analysis == analyze_faq_schema(js)
        has_breadcrumb == \E k \in DOMAIN js : TypeIs(js[k], "BreadcrumbList")
        content_quality == analyze_content_quality(pg)
        authority == analyze_authority_signals(pg)
        metadata == analyze_metadata(pg)
        sd == structured_data_score(schema_analysis, faq_analysis, has_breadcrumb)
        co == content_score(content_quality)
        au == authority_score(authority)
        md == metadata_score(metadata)
    IN  [score |-> total_score(sd, co, au, md),
         score_breakdown |->
             [structured_data |-> sd, content_quality |-> co,
              authority |-> au, metadata |-> md],
         findings |->
             [structured_data |->
                  structured_data_findings(schema_analysis, faq_analysis, has_breadcrumb),
              content_quality |-> content_quality,
              authority |-> authority,
              metadata |-> metadata],
         recommendations |->
             recommendations_of(schema_analysis, faq_analysis, content_quality,
                                authority, metadata, has_breadcrumb),
         schema_analysis |-> schema_analysis]

(***************************************************************************)
(* Pages the model scores.  Each family varies one part of the page over   *)
(* every combination of its signals, on a page whose other parts are all   *)
(* poor or all rich.                                                       *)
(***************************************************************************)
MaxBlocks == 3

Faq(v) == Rec(TypeStr("FAQPage"), [mainEntity |-> v])
Breadcrumb == Rec(TypeStr("BreadcrumbList"), <<>>)
NotADict == [isdict |-> FALSE, rec |-> Thing]

PageBlocks ==
    {DictBlock(r) : r \in {FullProduct, BareProduct,
                           Rec(TypeStr("Product"), EssentialOnly),
                           Rec(TypeList(<<"Thing", "Product">>), NameOnly),
                           Faq(List(0)), Faq(List(WellStructuredMin - 1)),
                           Faq(List(WellStructuredMin)), Faq(List(MaxQuestions)),
                           Faq(Dict({"@type"})), Rec(TypeStr("FAQPage"), <<>>),
                           Breadcrumb}}
    \cup {ListBlock(<<NotADict, [isdict |-> TRUE, rec |-> FullProduct]>>),
          OtherBlock, BadBlock}

BlockLists == UNION {[1..n -> PageBlocks] : n \in 0..MaxBlocks}

ContentParts ==
    [words : {SufficientWords - 1, SufficientWords}, h1 : 0..1, h2 : 0..1, h3 : 0..1,
     lists : 0..1, tables : 0..1, p : {0, MinParagraphs},
     kw_comparison : BOOLEAN, kw_usage : BOOLEAN, kw_specs : BOOLEAN]
AuthorityParts ==
    [rel_author : BOOLEAN, kw_par : BOOLEAN, time_tags : 0..1, kw_cert : BOOLEAN,
     kw_contact : BOOLEAN, nofollow : BOOLEAN]
MetadataParts ==
    [meta_desc : {-1, MetaDescriptionLen, MetaDescriptionLen + 1},
     og_tags : {MinOpenGraph - 1, MinOpenGraph},
     twitter_tags : {MinTwitter - 1, MinTwitter},
     title_len : {-1, TitleMin - 1, TitleMin, TitleMax, TitleMax + 1},
     canonical : BOOLEAN]

PoorContent ==
    [words |-> 0, h1 |-> 0, h2 |-> 0, h3 |-> 0, lists |-> 0, tables |-> 0, p |-> 0,
     kw_comparison |-> FALSE, kw_usage |-> FALSE, kw_specs |-> FALSE]
RichContent ==
    [words |-> SufficientWords, h1 |-> 1, h2 |-> 1, h3 |-> 1, lists |-> 1, tables |-> 1,
     p |-> MinParagraphs, kw_comparison |-> TRUE, kw_usage |-> TRUE, kw_specs |-> TRUE]
PoorAuthority ==
    [rel_author |-> FALSE, kw_par |-> FALSE, time_tags |-> 0, kw_cert |-> FALSE,
     kw_contact |-> FALSE, nofollow |-> FALSE]
RichAuthority ==
    [rel_author |-> TRUE, kw_par |-> TRUE, time_tags |-> 1, kw_cert |-> TRUE,
     kw_contact |-> TRUE, nofollow |-> TRUE]
PoorMetadata ==
    [meta_desc |-> -1, og_tags |-> 0, twitter_tags |-> 0, title_len |-> -1,
     canonical |-> FALSE]
RichMetadata ==
    [meta_desc |-> MetaDescriptionLen + 1, og_tags |-> MinOpenGraph,
     twitter_tags |-> MinTwitter, title_len |-> TitleMin, canonical |-> TRUE]
RichBlocks ==
    <<DictBlock(FullProduct), DictBlock(Faq(List(WellStructuredMin))), DictBlock(Breadcrumb)>>

MakePage(b, c, a, m) == [blocks |-> b] @@ c @@ a @@ m

PoorPage == MakePage(<<>>, PoorContent, PoorAuthority, PoorMetadata)
RichPage == MakePage(RichBlocks, RichContent, RichAuthority, RichMetadata)

\* base with the fields of part replaced
With(base, part) == part @@ base

Pages ==
    {With(base, [blocks |-> b]) : base \in {PoorPage, RichPage}, b \in BlockLists}
    \cup {With(base, c) : base \in {PoorPage, RichPage}, c \in ContentParts}
    \cup {With(base, a) : base \in {PoorPage, RichPage}, a \in AuthorityParts}
    \cup {With(base, m) : base \in {PoorPage, RichPage}, m \in MetadataParts}

(***************************************************************************)
(* SpecPage: score_page as a pure function of the parsed page.             *)
(***************************************************************************)
InitPage ==
    /\ pc = "page"
    /\ page \in Pages
    /\ data = None
    /\ jsonlds = <<>> /\ analysis = None
    /\ Idle

ScorePage ==
    /\ pc = "page"
    /\ jsonlds' = extract_jsonld(page.blocks)
    /\ data' = score_page(page)
    /\ pc' = "page_done"
    /\ UNCHANGED <<params, discovered, urls, stats, i, results, fetched, ret,
                   page, analysis, csv>>

NextPage == ScorePage

SpecPage == InitPage /\ [][NextPage]_vars

(***************************************************************************)
(* URLs.  A URL is its netloc, as the sequence of its dot-separated        *)
(* labels, and its path, as the sequence of its segments.  A filter        *)
(* pattern is a literal path segment; re.search(p, url) finds it when the  *)
(* path has that segment.                                                  *)
(***************************************************************************)
Url(netloc, path) == [netloc |-> netloc, path |-> path]

\* str.lower() on the labels and segments the model uses
Lower(s) == IF s = "WWW" THEN "www" ELSE IF s = "Shop" THEN "shop" ELSE s

\* netloc.lower().replace('www.', ''): every "www" label that a dot follows
\* goes (no label of the model ends in "www" without being "www")
Domain(netloc) ==
    LET low == [k \in DOMAIN netloc |-> Lower(netloc[k])]
        keep == {k \in DOMAIN low : ~(low[k] = "www" /\ k < Len(low))}
        Kept(k) == k \in keep
        idx == SelectSeq([k \in DOMAIN low |-> k], Kept)
    IN  [k \in DOMAIN idx |-> low[idx[k]]]

same_domain(url, root) == Domain(url.netloc) = Domain(root.netloc)

Search(p, url) == \E k \in DOMAIN url.path : url.path[k] = p

url_allowed_include_wins(url, include_pattern, exclude_patterns) ==
    IF include_pattern # "" /\ Search(include_pattern, url)
    THEN TRUE
    ELSE ~\E k \in DOMAIN exclude_patterns : Search(exclude_patterns[k], url)
url_allowed(url, include_pattern, exclude_patterns) ==
    IF \E k \in DOMAIN exclude_patterns : Search(exclude_patterns[k], url)
    THEN FALSE
    ELSE IF include_pattern # "" /\ ~Search(include_pattern, url)
    THEN FALSE
    ELSE TRUE

TechnicalSegments == {"sitemap", "wp-content", "wp-json", "admin", "api"}
GenericPrefixes == {"content", "product", "produit", "item", "article", "shop", "boutique"}
IsDigit(s) == s \in {"42"}
AllCategories == "Toutes les categories"

InSeq(x, seq) == \E k \in DOMAIN seq : seq[k] = x

\* whether the loop of filter_urls_by_categories appends url to filtered
CategoryKeeps(url, selected_categories, level) ==
    LET NotTechnical(sg) == Lower(sg) \notin TechnicalSegments
        segments == SelectSeq(url.path, NotTechnical)
    IN  /\ url.path # <<>>
        /\ \/ /\ level = "level1"
              /\ Len(segments) <= 2 /\ Len(segments) >= 1
              /\ InSeq(segments[1], selected_categories)
           \/ /\ level = "level2"
              /\ Len(segments) >= 3
              /\ \E k \in DOMAIN segments :
                     /\ Lower(segments[k]) \notin GenericPrefixes
                     /\ ~IsDigit(segments[k])
                     /\ InSeq(segments[k], selected_categories)

filter_urls_by_categories(us, selected_categories, level) ==
    IF selected_categories = <<>> \/ InSeq(AllCategories, selected_categories)
    THEN us
    ELSE LET Keeps(u) == CategoryKeeps(u, selected_categories, level)
         IN  SelectSeq(us, Keeps)

(***************************************************************************)
(* The results of run_audit.                                               *)
(***************************************************************************)
EmptyDict == <<>>

\* d.get(key) taken as a condition: a missing key gives None, which is false
GetTruthy(d, key) == IF key \in DOMAIN d THEN d[key] ELSE FALSE

\* "text/html" in ct, over the content types the model uses
IsHtml(ct) == ct \in {"text/html", "text/html; charset=utf-8"}

\* page_type = "product" if data["findings"].get("has_product_schema") else "other"
page_type(d) == IF GetTruthy(d.findings, "has_product_schema") THEN "product" ELSE "other"

\* the dict appended on the branch `if "text/html" in ct`
scored_result(url, status, d) ==
    [url |-> url, status |-> status, type |-> page_type(d), score |-> d.score,
     findings |-> d.findings, recommendations |-> d.recommendations]

\* the dict appended on the else branch
non_html_result_no_status(url, status) ==
    [url |-> url, status |-> 0, type |-> "error", score |-> 0,
     findings |-> <<>>, recommendations |-> <<RecStr("Page non HTML")>>]
non_html_result(url, status) ==
    [url |-> url, status |-> status, type |-> "error", score |-> 0,
     findings |-> EmptyDict, recommendations |-> <<RecStr("Page non HTML")>>]

\* the dict appended by the except clause
exception_result(url) ==
    [url |-> url, status |-> 0, type |-> "error", score |-> 0,
     findings |-> EmptyDict, recommendations |-> <<RecStr("Erreur")>>]

\* key=lambda x: (0 if x["type"] == "product" else 1, x["score"])
sort_key(x) == <<IF x.type = "product" THEN 0 ELSE 1, x.score>>

\* tuple comparison a <= b
KeyLeq_strict(a, b) == a[1] < b[1] \/ (a[1] = b[1] /\ a[2] < b[2])
KeyLeq(a, b) == a[1] < b[1] \/ (a[1] = b[1] /\ a[2] <= b[2])

\* list.sort(key=...) is stable: x goes behind every element whose key is
\* not greater than its own
RECURSIVE InsertSorted(_, _)
InsertSorted(sorted, x) ==
    IF sorted = <<>> THEN <<x>>
    ELSE IF KeyLeq(sort_key(Head(sorted)), sort_key(x))
    THEN <<Head(sorted)>> \o InsertSorted(Tail(sorted), x)
    ELSE <<x>> \o sorted

RECURSIVE SortFrom(_, _)
SortFrom(sorted, rest) ==
    IF rest = <<>> THEN sorted
    ELSE SortFrom(InsertSorted(sorted, Head(rest)), Tail(rest))

sort_results_unsorted(rs) == rs
sort_results(rs) == SortFrom(<<>>, rs)

(***************************************************************************)
(* Spec: run_audit.                                                        *)
(***************************************************************************)
MaxPages == 3

RootUrl == Url(<<"www", "shop", "com">>, <<>>)

\* the URLs of the sitemap, in the order sorted() gives them
SitemapUrls ==
    << Url(<<"other", "com">>, <<"products", "shoes">>),
       Url(<<"shop", "com">>, <<"cart">>),
       Url(<<"shop", "com">>, <<"products", "shoes">>),
       Url(<<"www", "Shop", "com">>, <<"content", "shoes", "42">>),
       Url(<<"www", "shop", "com">>, <<"products", "cart">>) >>

\* sorted(set(urls)) of any sitemap content, or [root_url] without a sitemap
Discoveries ==
    {<<RootUrl>>} \cup
    { LET In(k) == k \in S
          idx == SelectSeq([k \in DOMAIN SitemapUrls |-> k], In)
      IN  [k \in DOMAIN idx |-> SitemapUrls[idx[k]]] : S \in SUBSET DOMAIN SitemapUrls }

\* selected_categories with its category_level
CategoryChoices ==
    {<<<<>>, "level1">>, <<<<"products">>, "level1">>, <<<<"shoes">>, "level2">>,
     <<<<AllCategories, "shoes">>, "level2">>}

Params ==
    {[root_url |-> RootUrl, max_pages |-> n, include_pattern |-> inc,
      exclude_patterns |-> exc, selected_categories |-> c[1], category_level |-> c[2]] :
     n \in 1..MaxPages, inc \in {"", "products"}, exc \in {<<>>, <<"cart">>},
     c \in CategoryChoices}

ProductOnlyPage == With(PoorPage, [blocks |-> <<DictBlock(FullProduct)>>])
AuditPages == {PoorPage, RichPage, ProductOnlyPage}

\* what client.get(url) can do: raise, or return a response.  scorable is
\* whether r.text and score_page go through without raising.
Fetches ==
    {[kind |-> "raise", status |-> 0, ct |-> "", body |-> None, scorable |-> FALSE],
     [kind |-> "response", status |-> 200, ct |-> "application/pdf", body |-> None,
      scorable |-> FALSE],
     [kind |-> "response", status |-> 404, ct |-> "", body |-> None, scorable |-> FALSE],
     [kind |-> "response", status |-> 404, ct |-> "text/html", body |-> PoorPage,
      scorable |-> TRUE],
     [kind |-> "response", status |-> 200, ct |-> "text/html", body |-> None,
      scorable |-> FALSE]}
    \cup {[kind |-> "response", status |-> 200, ct |-> "text/html; charset=utf-8",
           body |-> pg, scorable |-> TRUE] : pg \in AuditPages}

Init ==
    /\ pc = "start"
    /\ params \in Params
    /\ discovered = <<>> /\ urls = <<>> /\ stats = None
    /\ i = 0 /\ results = <<>> /\ fetched = <<>> /\ ret = None /\ csv = None
    /\ page = None /\ data = None /\ jsonlds = <<>> /\ analysis = None

\* run_audit up to the loop: discovery and the filters
after_domain(us, root) == LET Same(u) == same_domain(u, root) IN SelectSeq(us, Same)
after_patterns(us, inc, exc) == LET Ok(u) == url_allowed(u, inc, exc) IN SelectSeq(us, Ok)

CategoriesSelected(sel) == sel # <<>> /\ ~InSeq(AllCategories, sel)

\* one string of the suggestions list: which line it is and the numbers or
\* the url it interpolates
Suggestion(line, counts) == [line |-> line, counts |-> counts, url |-> None]
UrlSuggestion(line, u) == [line |-> line, counts |-> <<>>, url |-> u]

\* rejected_by_domain: of the first 5 discovered urls, those of another domain
RejectedByDomain(found, root, st) ==
    IF st.urls_after_domain < st.urls_discovered
    THEN LET Other(u) == ~same_domain(u, root) IN SelectSeq(Prefix(found, 5), Other)
    ELSE <<>>

UrlLines(line, us) == [k \in DOMAIN us |-> UrlSuggestion(line, us[k])]

\* the dict returned when len(urls) == 0
empty_result_without_patterns(st, p, found) ==
    [error |-> TRUE, message |-> "Aucune URL trouvee apres filtrage.",
     suggestions |->
        << Suggestion("debug", <<st.urls_discovered, st.urls_after_domain>>) >>]
empty_result(st, p, found) ==
    LET sample_urls == Prefix(found, 5)
        rejected == RejectedByDomain(found, p.root_url, st)
    IN  [error |-> TRUE,
         message |-> "Aucune URL trouvee apres filtrage.",
         suggestions |->
            << Suggestion("debug", <<st.urls_discovered, st.urls_after_domain>>) >>
            \o (IF CategoriesSelected(p.selected_categories)
                THEN << Suggestion("categories", <<st.urls_after_categories>>) >>
                ELSE <<>>)
            \o << Suggestion("patterns", <<st.urls_after_patterns>>),
                  Suggestion("domaine root", <<>>) >>
            \o (IF sample_urls # <<>>
                THEN << Suggestion("echantillon", <<>>) >>
                     \o UrlLines("url", Prefix(sample_urls, 3))
                ELSE <<>>)
            \o (IF rejected # <<>>
                THEN << Suggestion("rejetees", <<>>) >>
                     \o UrlLines("rejetee", Prefix(rejected, 3))
                ELSE <<>>)
            \o << Suggestion("pattern inclusion", <<>>),
                  Suggestion("patterns exclusion", <<>>),
                  Suggestion("solution", <<>>) >>]

Start ==
    /\ pc = "start"
    /\ \E found \in Discoveries :
        LET dom == after_domain(found, params.root_url)
            cat == IF CategoriesSelected(params.selected_categories)
                   THEN filter_urls_by_categories(dom, params.selected_categories,
                                                  params.category_level)
                   ELSE dom
            pat == after_patterns(cat, params.include_pattern, params.exclude_patterns)
            cut == Prefix(pat, params.max_pages)
            st == [urls_discovered |-> Len(found), urls_after_domain |-> Len(dom),
                   urls_after_categories |-> Len(cat), urls_after_patterns |-> Len(pat)]
        IN  /\ discovered' = found
            /\ urls' = cut
            /\ stats' = st
            /\ IF Len(cut) = 0
               THEN /\ ret' = empty_result(st, params, found)
                    /\ pc' = "no_urls"
               ELSE /\ ret' = ret
                    /\ pc' = "loop"
    /\ UNCHANGED <<params, i, results, fetched, page, data, jsonlds, analysis, csv>>

\* results.append(r)
append_result_scored_only(rs, r) == IF r.type = "error" THEN rs ELSE Append(rs, r)
append_result(rs, r) == Append(rs, r)

\* one iteration of `for i, url in enumerate(urls)`: the PageResult for what
\* client.get did
iteration_result_skipped_as_failed(url, f) ==
    IF f.kind = "raise" THEN exception_result(url)
    ELSE IF IsHtml(f.ct)
    THEN (IF f.scorable THEN scored_result(url, f.status, score_page(f.body))
          ELSE exception_result(url))
    ELSE exception_result(url)
iteration_result(url, f) ==
    IF f.kind = "raise" THEN exception_result(url)
    ELSE IF IsHtml(f.ct)
    THEN (IF f.scorable THEN scored_result(url, f.status, score_page(f.body))
          ELSE exception_result(url))
    ELSE non_html_result(url, f.status)

Iterate(f) ==
    /\ pc = "loop" /\ i < Len(urls)
    /\ results' = append_result(results, iteration_result(urls[i + 1], f))
    /\ fetched' = Append(fetched, f)
    /\ i' = i + 1
    /\ UNCHANGED <<pc, params, discovered, urls, stats, ret, page, data, jsonlds, analysis, csv>>

FetchRaises == \E f \in Fetches : f.kind = "raise" /\ Iterate(f)
FetchNonHtml == \E f \in Fetches : f.kind = "response" /\ ~IsHtml(f.ct) /\ Iterate(f)
FetchHtml == \E f \in Fetches : f.kind = "response" /\ IsHtml(f.ct) /\ f.scorable /\ Iterate(f)
ScoringRaises ==
    \E f \in Fetches : f.kind = "response" /\ IsHtml(f.ct) /\ ~f.scorable /\ Iterate(f)

\* after the loop: results.sort(...) and return results
Finish ==
    /\ pc = "loop" /\ i = Len(urls)
    /\ results' = sort_results(results)
    /\ ret' = results'
    /\ pc' = "returned"
    /\ UNCHANGED <<params, discovered, urls, stats, i, fetched, page, data, jsonlds, analysis, csv>>

(***************************************************************************)
(* The results page.  The scan handler stores run_audit's return value in  *)
(* st.session_state.results unless it is the error dict; the page then     *)
(* shows the filters and the export button.                                *)
(***************************************************************************)
FilterTypes == {"Tous", "product", "other", "error"}
FilterScores == {0, 50}

\* filtered_results: by type unless "Tous", then by score >= filter_score
filtered_results(rs, filter_type, filter_score) ==
    LET Keep(r) == /\ (filter_type # "Tous" => r.type = filter_type)
                   /\ r.score >= filter_score
    IN  SelectSeq(rs, Keep)

\* r.get("score_breakdown", {}).get(key, 0)
breakdown_column(r, key) ==
    IF "score_breakdown" \in DOMAIN r THEN r.score_breakdown[key] ELSE 0

\* rec.get("priority", ""): a dict has .get, a str has not (AttributeError)
priority_raises(rec) == rec.kind = "str"

\* one row of df_export
csv_row(r) ==
    LET recs == r.recommendations
        Critical(rec) == rec.priority = "CRITIQUE"
    IN  [url |-> r.url, type |-> r.type, status |-> r.status, score |-> r.score,
         structured_data |-> breakdown_column(r, "structured_data"),
         content_quality |-> breakdown_column(r, "content_quality"),
         authority |-> breakdown_column(r, "authority"),
         metadata |-> breakdown_column(r, "metadata"),
         recommendation_count |-> Len(recs),
         critical_count |-> Len(SelectSeq(recs, Critical)),
         top3 |-> [k \in DOMAIN Prefix(recs, 3) |-> recs[k].text]]

\* pd.DataFrame([... for r in filtered_results]): the rows, unless building
\* one of them raises
df_export(rs) ==
    IF \E k \in DOMAIN rs : \E j \in DOMAIN rs[k].recommendations :
            priority_raises(rs[k].recommendations[j])
    THEN [raised |-> TRUE, rows |-> <<>>]
    ELSE [raised |-> FALSE, rows |-> [k \in DOMAIN rs |-> csv_row(rs[k])]]

\* a click on the export button, under some setting of the two filters.  The
\* export is rebuilt from the stored results at every click, so a later click
\* yields nothing the first could not: the first one is modelled.
ExportCsv ==
    /\ pc = "returned" /\ ret # <<>> /\ csv = None
    /\ \E filter_type \in FilterTypes, filter_score \in FilterScores :
           csv' = df_export(filtered_results(ret, filter_type, filter_score))
    /\ UNCHANGED <<pc, params, discovered, urls, stats, i, results, fetched, ret,
                   page, data, jsonlds, analysis>>

Next ==
    Start \/ FetchRaises \/ FetchNonHtml \/ FetchHtml \/ ScoringRaises \/ Finish \/ ExportCsv

Spec == Init /\ [][Next]_vars

(***************************************************************************)
(* Properties of score_page, checked under SpecPage.                       *)
(***************************************************************************)
Scored == pc = "page_done"

\* C1: for every page scored by score_page the returned total score
\* satisfies 0 <= score <= 100.
C1_ScoreWithin0To100 == Scored => data.score \in 0..100

\* C2: every sub-score of score_breakdown stays within its documented cap:
\* 0 <= structured_data <= 40, 0 <= content_quality <= 30,
\* 0 <= authority <= 15, 0 <= metadata <= 15.
C2_SubScoresWithinCaps ==
    Scored =>
        /\ data.score_breakdown.structured_data \in 0..40
        /\ data.score_breakdown.content_quality \in 0..30
        /\ data.score_breakdown.authority \in 0..15
        /\ data.score_breakdown.metadata \in 0..15

\* The 14 rules of the recommendation generator, in their fixed order: the
\* message, the priority tier and the predicate over the findings.
RuleTexts ==
    << "Ajouter schema.org Product", "Completer le schema Product", "Enrichir le contenu",
       "Ajouter une FAQ structuree", "Ajouter un tableau de specifications",
       "Structurer le contenu avec des titres H2/H3", "Ajouter une meta description",
       "Mentionner les certifications", "Ajouter une section comparative",
       "Ajouter un fil d'Ariane", "Indiquer la date et l'auteur",
       "Continuer a utiliser des listes a puces", "Ajouter un guide d'utilisation",
       "Ajouter les balises Open Graph" >>

RuleTier(n) ==
    IF n <= 3 THEN "CRITIQUE" ELSE IF n <= 7 THEN "IMPORTANT"
    ELSE IF n <= 11 THEN "RECOMMANDE" ELSE "BONUS"

TierRank(priority) ==
    CASE priority = "CRITIQUE" -> 1 [] priority = "IMPORTANT" -> 2
      [] priority = "RECOMMANDE" -> 3 [] priority = "BONUS" -> 4 [] OTHER -> 0

RuleHolds(n, d) ==
    LET sd == d.findings.structured_data
        cq == d.findings.content_quality
        au == d.findings.authority
        md == d.findings.metadata
    IN  CASE n = 1 -> ~d.schema_analysis.found
          [] n = 2 -> d.schema_analysis.found /\ d.schema_analysis.completeness < 70
          [] n = 3 -> cq.word_count < 300
          [] n = 4 -> ~sd.has_faq_schema \/ sd.faq_questions < 5
          [] n = 5 -> ~cq.has_tables /\ ~cq.has_specs
          [] n = 6 -> ~cq.has_hierarchy
          [] n = 7 -> ~md.has_meta_description
          [] n = 8 -> ~au.has_certifications
          [] n = 9 -> ~cq.has_comparison
          [] n = 10 -> ~sd.has_breadcrumb
          [] n = 11 -> ~au.has_author \/ ~au.has_publish_date
          [] n = 12 -> cq.has_lists
          [] n = 13 -> ~cq.has_usage_guide
          [] n = 14 -> ~md.has_open_graph

RuleNumbers(recs) ==
    [k \in DOMAIN recs |->
        IF \E n \in DOMAIN RuleTexts : RuleTexts[n] = recs[k].text
        THEN CHOOSE n \in DOMAIN RuleTexts : RuleTexts[n] = recs[k].text
        ELSE 0]

\* C9: the recommendation list of a scored page is a subsequence of the
\* fixed 14-rule order: every entry is the entry of one rule, with that
\* rule's priority, present only if the rule's predicate holds, and the
\* entries keep the rule order, so that the tiers come in the order
\* CRITICAL, IMPORTANT, RECOMMENDED, BONUS.
C9_RecommendationsFollowRuleOrder ==
    Scored =>
        LET recs == data.recommendations
            rule == RuleNumbers(recs)
        IN  /\ \A k \in DOMAIN recs :
                /\ recs[k].kind = "dict"
                /\ rule[k] \in DOMAIN RuleTexts
                /\ recs[k].priority = RuleTier(rule[k])
                /\ RuleHolds(rule[k], data)
            /\ \A k \in DOMAIN recs : k > 1 => rule[k - 1] < rule[k]
            /\ \A k \in DOMAIN recs :
                k > 1 => TierRank(recs[k - 1].priority) <= TierRank(recs[k].priority)

\* a scored page whose list has entries of all four tiers
C9_Witness ==
    /\ Scored
    /\ \A t \in 1..4 :
        \E k \in DOMAIN data.recommendations : TierRank(data.recommendations[k].priority) = t

\* C10: the returned score equals the sum of the four values of the
\* returned score_breakdown.
C10_ScoreIsSumOfBreakdown ==
    Scored =>
        data.score = data.score_breakdown.structured_data
                     + data.score_breakdown.content_quality
                     + data.score_breakdown.authority
                     + data.score_breakdown.metadata

\* a scored page on which all four sub-scores contribute, past 100 in total
C10_Witness ==
    /\ Scored
    /\ data.score_breakdown.structured_data > 0
    /\ data.score_breakdown.content_quality > 0
    /\ data.score_breakdown.authority > 0
    /\ data.score_breakdown.metadata > 0
    /\ data.score > 100

(***************************************************************************)
(* Properties of analyze_schema_completeness, checked under SpecSchema.    *)
(***************************************************************************)
\* C4: the completeness returned by analyze_schema_completeness is in
\* 0..100: the achieved points never exceed total_points, the denominator.
C4_CompletenessWithin0To100 ==
    pc = "schema_done" =>
        /\ analysis.completeness \in 0..100
        /\ analysis.found => schema_score(analysis.schema) <= total_points

\* the analysed record and its offers, when a Product record was found
Analysed == pc = "schema_done" /\ analysis.found
Offers == analysis.schema.f["offers"]
OffersIsMapping == Offers.kind = "dict"

PresentAmong(names) ==
    Cardinality({f \in names : analysis.schema.f[f].kind # "absent"
                                /\ analysis.schema.f[f].n > 0})

\* the checklist points: 2 per present essential field, 1 per present
\* recommended field
ChecklistPoints ==
    2 * PresentAmong({"name", "description", "image", "brand", "offers"})
    + PresentAmong({"sku", "gtin", "mpn", "aggregateRating", "review"})

PriceBonus ==
    IF OffersIsMapping /\ "price" \in Offers.keys /\ "priceCurrency" \in Offers.keys
    THEN 2 ELSE 0
AvailabilityBonus == IF OffersIsMapping /\ "availability" \in Offers.keys THEN 1 ELSE 0

\* achievedPoints as the code grants them
AchievedPoints == ChecklistPoints + PriceBonus + AvailabilityBonus

\* C18 as stated: completeness equals round(100 * achievedPoints /
\* totalPossiblePoints).  The quotient is never half-way between two
\* integers (the denominator is 15), so round is the nearest integer.
C18_CompletenessIsRounded ==
    Analysed =>
        LET c == analysis.completeness
        IN  /\ 2 * c * total_points <= 2 * 100 * AchievedPoints + total_points
            /\ 2 * 100 * AchievedPoints + total_points < 2 * (c + 1) * total_points

\* C18: completeness equals 100 * achievedPoints / totalPossiblePoints
\* rounded down to an integer, for every achievable point total, where
\* achievedPoints is 2 per present essential field, 1 per present
\* recommended field plus the offer bonus and totalPossiblePoints is the
\* fixed denominator 15.
C18_CompletenessIsTruncated ==
    Analysed =>
        LET c == analysis.completeness
        IN  /\ total_points = 15
            /\ c * total_points <= 100 * AchievedPoints
            /\ 100 * AchievedPoints < (c + 1) * total_points

\* a record whose quotient has fractional part 2/3: truncation and rounding
\* differ
C18_Witness == Analysed /\ AchievedPoints = 13 /\ analysis.completeness = 86

\* C19 as stated: the availability point is granted only when price and
\* priceCurrency are both present; an offers mapping with availability but
\* without price or priceCurrency earns no offer bonus.
C19_AvailabilityOnlyWithPrice ==
    (Analysed /\ OffersIsMapping /\ "availability" \in Offers.keys /\ PriceBonus = 0) =>
        analysis.completeness = (100 * ChecklistPoints) \div 15

\* C19: the offer bonus is +2 when offers is a mapping containing both
\* price and priceCurrency, and +1 when offers is a mapping containing
\* availability, each granted independently of the other: an offers mapping
\* with availability but without price or priceCurrency earns +1; offers
\* that is not a mapping earns no bonus.
C19_OfferBonusesIndependent ==
    Analysed =>
        LET bonus == IF OffersIsMapping
                     THEN (IF {"price", "priceCurrency"} \subseteq Offers.keys THEN 2 ELSE 0)
                          + (IF "availability" \in Offers.keys THEN 1 ELSE 0)
                     ELSE 0
        IN  /\ schema_score(analysis.schema) = ChecklistPoints + bonus
            /\ analysis.completeness = (100 * (ChecklistPoints + bonus)) \div 15

\* an offers mapping with availability and price but no priceCurrency: the
\* only points are the 2 of the offers field and the 1 of availability
C19_Witness ==
    /\ Analysed
    /\ Offers.kind = "dict" /\ Offers.keys = {"availability", "price"}
    /\ ChecklistPoints = 2
    /\ analysis.completeness = 20

\* the mainEntity of the first FAQPage record of the analysed list
FaqAnalysed == pc = "faq_done"
FaqPositions ==
    {k \in DOMAIN jsonlds : jsonlds[k].type.kind = "str"
                              /\ jsonlds[k].type.names = <<"FAQPage">>}
FirstFaq == jsonlds[CHOOSE k \in FaqPositions : \A j \in FaqPositions : k <= j]
MainEntity == FirstFaq.f["mainEntity"]

\* C20 as stated: question_count is the length of the first FAQPage
\* record's question list, and 0 when that field is absent or is a single
\* (non-list) value; well_structured holds exactly when question_count >= 5.
C20_SingleValueCountsZero ==
    FaqAnalysed =>
        /\ analysis.found = (FaqPositions # {})
        /\ analysis.found =>
            /\ analysis.question_count =
                   IF MainEntity.kind = "list" THEN MainEntity.n ELSE 0
            /\ analysis.well_structured = (analysis.question_count >= 5)

\* C20: analyze_faq_schema reports question_count equal to the length of
\* the first FAQPage record's question list, 0 when that field is absent
\* and 1 when it is a single (non-list) value; well_structured holds
\* exactly when question_count >= 5.  Without a FAQPage record it reports
\* found false and question_count 0.
C20_QuestionCount ==
    FaqAnalysed =>
        /\ analysis.found = (FaqPositions # {})
        /\ ~analysis.found => analysis.question_count = 0
        /\ analysis.found =>
            /\ analysis.question_count =
                   CASE MainEntity.kind = "list" -> MainEntity.n
                     [] MainEntity.kind = "absent" -> 0
                     [] OTHER -> 1
            /\ analysis.well_structured = (analysis.question_count >= 5)

\* a list whose first FAQPage record has one Question as a dict and whose
\* second has a list of five
C20_Witness ==
    /\ FaqAnalysed /\ Len(jsonlds) = 2
    /\ Cardinality(FaqPositions) = 2
    /\ jsonlds[1].f["mainEntity"].kind = "dict"
    /\ jsonlds[2].f["mainEntity"] = List(5)
    /\ analysis.question_count = 1

(***************************************************************************)
(* Properties of run_audit, checked under Spec.                            *)
(***************************************************************************)
\* the PageResult of the k-th audited url, wherever the sort put it
ResultOf(k) == results[CHOOSE j \in DOMAIN results : results[j].url = urls[k]]

WasScored(f) == f.kind = "response" /\ IsHtml(f.ct) /\ f.scorable

\* C3: the PageResult of an audited HTML page has type "product" if and only
\* if the page's structured records contain a Product-typed record (the
\* schema analysis found one), and type "other" otherwise.
C3_ProductIffSchemaFound ==
    \A k \in DOMAIN fetched :
        WasScored(fetched[k]) =>
            ResultOf(k).type =
                IF analyze_schema_completeness(extract_jsonld(fetched[k].body.blocks)).found
                THEN "product" ELSE "other"

IsProduct(r) == r.type = "product"

C6_OneResultPerUrl ==
    /\ pc = "loop" =>
        /\ i <= Len(urls) /\ Len(results) = i
        /\ \A k \in 1..i : results[k].url = urls[k]
    /\ pc = "returned" =>
        /\ Len(ret) = Len(urls)
        /\ \A k \in DOMAIN urls : Cardinality({j \in DOMAIN ret : ret[j].url = urls[k]}) = 1
    /\ pc \notin {"returned", "no_urls"} => ENABLED Next

\* a run that returned three results although the fetch of the first url
\* raised and the scoring of the second raised
C6_Witness ==
    /\ pc = "returned"
    /\ Len(ret) = 3
    /\ fetched[1].kind = "raise"
    /\ fetched[2].kind = "response" /\ IsHtml(fetched[2].ct) /\ ~fetched[2].scorable
    /\ WasScored(fetched[3])

IsErrorResult(r, status) ==
    /\ r.type = "error" /\ r.score = 0 /\ r.status = status
    /\ DOMAIN r.findings = {}
    /\ Len(r.recommendations) = 1 /\ r.recommendations[1].kind = "str"

\* C7: when the fetch of a URL raises, or the response's content type does
\* not contain text/html, the PageResult of that URL has type "error",
\* score 0, empty findings and exactly one recommendation, a string; its
\* status is 0 for a raised fetch and the response's status code for a
\* non-HTML response.
C7_ErrorResultShape ==
    \A k \in DOMAIN fetched :
        /\ fetched[k].kind = "raise" => IsErrorResult(ResultOf(k), 0)
        /\ (fetched[k].kind = "response" /\ ~IsHtml(fetched[k].ct)) =>
               IsErrorResult(ResultOf(k), fetched[k].status)

\* a run with a raised fetch and a non-HTML response of status 404
C7_Witness ==
    /\ pc = "returned"
    /\ \E k \in DOMAIN fetched : fetched[k].kind = "raise"
    /\ \E k \in DOMAIN fetched :
        fetched[k].kind = "response" /\ ~IsHtml(fetched[k].ct) /\ fetched[k].status = 404

\* C8: a URL whose final HTTP response has a non-2xx status is a fetch
\* failure: its PageResult is classified "error" with score 0, also when
\* the response body is text/html.
C8_Non2xxIsError ==
    \A k \in DOMAIN fetched :
        (fetched[k].kind = "response" /\ fetched[k].status \notin 200..299) =>
            ResultOf(k).type = "error" /\ ResultOf(k).score = 0

\* whether a record of the page is Product-typed, read off the page's blocks
PageHasProductRecord(pg) ==
    \E b \in DOMAIN pg.blocks :
        \E e \in DOMAIN pg.blocks[b].items :
            LET item == pg.blocks[b].items[e]
                t == item.rec.type
            IN  /\ pg.blocks[b].shape \in {"dict", "list"}
                /\ item.isdict
                /\ \/ t.kind = "str" /\ t.names[1] \in {"Product", "ProductModel"}
                   \/ t.kind = "list" /\ \E n \in DOMAIN t.names : t.names[n] = "Product"

\* C11: when no Product-typed record is among the extracted records, the
\* schema analysis is found = false, completeness = 0, missing = [], and
\* the Product schema adds nothing to the structured-data sub-score, which
\* is then the FAQ points plus the breadcrumb points alone.
C11_NoProductNoPoints ==
    (Scored /\ ~PageHasProductRecord(page)) =>
        LET sd == data.findings.structured_data
        IN  /\ ~data.schema_analysis.found
            /\ data.schema_analysis.completeness = 0
            /\ data.schema_analysis.missing = <<>>
            /\ data.score_breakdown.structured_data =
                   (IF sd.has_faq_schema
                    THEN (IF sd.faq_questions >= 5 THEN 10 ELSE 5) ELSE 0)
                   + (IF sd.has_breadcrumb THEN 5 ELSE 0)

\* a scored page with JSON-LD records, none of them Product-typed, and a
\* structured-data sub-score above 0
C11_Witness ==
    /\ Scored
    /\ ~PageHasProductRecord(page)
    /\ Len(extract_jsonld(page.blocks)) >= 2
    /\ data.score_breakdown.structured_data > 0

\* the discovered urls that pass the domain filter, the category filter when
\* categories are selected, and the pattern filters: counted stage by stage
SurvivorsOfDomain ==
    {k \in DOMAIN discovered : same_domain(discovered[k], params.root_url)}
SurvivorsOfCategories ==
    {k \in SurvivorsOfDomain :
        CategoriesSelected(params.selected_categories) =>
            CategoryKeeps(discovered[k], params.selected_categories, params.category_level)}
SurvivorsOfPatterns ==
    {k \in SurvivorsOfCategories :
        url_allowed(discovered[k], params.include_pattern, params.exclude_patterns)}

HasLine(line, counts) ==
    \E k \in DOMAIN ret.suggestions :
        ret.suggestions[k].line = line /\ ret.suggestions[k].counts = counts

\* C12: when no URL survives discovery and the filters, run_audit fetches no
\* page and returns the error dict (error = True) instead of a list of
\* PageResults; its suggestions carry the number of urls discovered, after
\* the domain filter, after the category filter when categories are
\* selected, and after the pattern filters.  With a surviving URL it never
\* returns that dict.
C12_EmptyResultSet ==
    /\ (pc # "start" /\ SurvivorsOfPatterns = {}) =>
        /\ pc = "no_urls"
        /\ fetched = <<>> /\ results = <<>> /\ i = 0
        /\ ret.error
        /\ HasLine("debug", <<Len(discovered), Cardinality(SurvivorsOfDomain)>>)
        /\ CategoriesSelected(params.selected_categories) =>
               HasLine("categories", <<Cardinality(SurvivorsOfCategories)>>)
        /\ HasLine("patterns", <<0>>)
    /\ (pc # "start" /\ SurvivorsOfPatterns # {}) => pc \in {"loop", "returned"}

\* an error return after the category filter emptied a list that the domain
\* filter had left non-empty
C12_Witness ==
    /\ pc = "no_urls"
    /\ Len(discovered) >= 3
    /\ Cardinality(SurvivorsOfDomain) >= 2
    /\ CategoriesSelected(params.selected_categories)
    /\ SurvivorsOfCategories = {}

(***************************************************************************)
(* Properties of the CSV export, checked under Spec.                       *)
(***************************************************************************)
Exported == csv # None

\* the index in urls (and in fetched) of the page a CSV row is about
PageOfRow(row) == CHOOSE k \in DOMAIN urls : urls[k] = row.url

\* C13: every row of the CSV export carries the four sub-scores of its
\* page: the structured-data, content, authority and metadata columns equal
\* the score_breakdown score_page computed for the page.
C13_CsvCarriesBreakdown ==
    (Exported /\ ~csv.raised) =>
        \A j \in DOMAIN csv.rows :
            LET row == csv.rows[j]
                f == fetched[PageOfRow(row)]
            IN  WasScored(f) =>
                    LET b == score_page(f.body).score_breakdown
                    IN  /\ row.structured_data = b.structured_data
                        /\ row.content_quality = b.content_quality
                        /\ row.authority = b.authority
                        /\ row.metadata = b.metadata

\* C14: every PageResult serializes to a CSV row without raising, the
\* error ones included: an export of any filtered list yields one row per
\* result, an error page's row has 0 critical recommendations, and the
\* recommendation summary holds at most the first 3 recommendations.
C14_EveryResultSerializes ==
    Exported =>
        /\ ~csv.raised
        /\ \A j \in DOMAIN csv.rows :
            /\ Len(csv.rows[j].top3) <= 3
            /\ csv.rows[j].type = "error" => csv.rows[j].critical_count = 0

(***************************************************************************)
(* Properties of the audited URL list, checked under Spec.  The pages      *)
(* run_audit fetches are urls[1..Len(fetched)]: iteration k fetches        *)
(* urls[k].                                                                *)
(***************************************************************************)
\* the k-th discovered url, in order, among those that survive all filters
KthSurvivor(k) ==
    discovered[CHOOSE j \in SurvivorsOfPatterns :
                   Cardinality({m \in SurvivorsOfPatterns : m <= j}) = k]

\* C16: run_audit never fetches more than max_pages pages: the audited urls
\* are exactly the first max_pages elements, in order, of the url list that
\* survived all filters (all of it when it is shorter), so the result list
\* has at most max_pages entries.
C16_AtMostMaxPages ==
    pc # "start" =>
        /\ Len(urls) = IF Cardinality(SurvivorsOfPatterns) < params.max_pages
                       THEN Cardinality(SurvivorsOfPatterns) ELSE params.max_pages
        /\ \A k \in DOMAIN urls : urls[k] = KthSurvivor(k)
        /\ Len(fetched) <= params.max_pages
        /\ Len(results) <= params.max_pages
        /\ \A k \in DOMAIN results : \E j \in DOMAIN fetched : results[k].url = urls[j]
        /\ pc = "returned" =>
               /\ Len(ret) <= params.max_pages
               /\ {ret[k].url : k \in DOMAIN ret} = {urls[k] : k \in DOMAIN urls}

\* a finished audit of max_pages >= 2 pages whose filtered list was longer
C16_Witness ==
    /\ pc = "returned"
    /\ params.max_pages >= 2
    /\ Cardinality(SurvivorsOfPatterns) > params.max_pages
    /\ Len(fetched) = params.max_pages

MatchesExclusion(u) ==
    \E k \in DOMAIN params.exclude_patterns : Search(params.exclude_patterns[k], u)
MatchesInclusion(u) == Search(params.include_pattern, u)

\* C17: every url run_audit fetches belongs to the root url's domain,
\* matches no exclusion pattern and, when an inclusion pattern is set,
\* matches it; a discovered url that matches both an exclusion pattern and
\* the inclusion pattern is never fetched.
C17_FetchedUrlsPassFilters ==
    /\ \A k \in DOMAIN fetched :
        /\ same_domain(urls[k], params.root_url)
        /\ ~MatchesExclusion(urls[k])
        /\ params.include_pattern # "" => MatchesInclusion(urls[k])
    /\ \A j \in DOMAIN discovered :
        (MatchesExclusion(discovered[j]) /\ MatchesInclusion(discovered[j])) =>
            \A k \in DOMAIN fetched : urls[k] # discovered[j]

\* a finished audit with both patterns set, whose sitemap held a url of
\* another domain and a same-domain url matching both patterns
C17_Witness ==
    /\ pc = "returned" /\ fetched # <<>>
    /\ params.include_pattern # "" /\ params.exclude_patterns # <<>>
    /\ \E j \in DOMAIN discovered : ~same_domain(discovered[j], params.root_url)
    /\ \E j \in DOMAIN discovered :
        /\ same_domain(discovered[j], params.root_url)
        /\ MatchesExclusion(discovered[j]) /\ MatchesInclusion(discovered[j])

(***************************************************************************)
(* Properties of the record selection, checked under SpecSchema.           *)
(***************************************************************************)
\* the positions of jsonlds whose @type equals "Product" or "ProductModel"
\* or is a list containing one of the two
ProductTypedPositions ==
    {k \in DOMAIN jsonlds :
        LET t == jsonlds[k].type
        IN  \E n \in DOMAIN t.names :
                t.kind \in {"str", "list"} /\ t.names[n] \in {"Product", "ProductModel"}}

\* C21: analyze_schema_completeness checks the first record, in extraction
\* order, whose @type equals "Product" or "ProductModel" or is a list
\* containing "Product" or "ProductModel"; found is true exactly when such
\* a record exists.
C21_FirstProductTypedRecord ==
    pc = "schema_done" =>
        /\ analysis.found = (ProductTypedPositions # {})
        /\ analysis.found =>
            analysis.schema =
                jsonlds[CHOOSE k \in ProductTypedPositions :
                            \A j \in ProductTypedPositions : k <= j]

(***************************************************************************)
(* Properties of the recommendation rules, checked under SpecPage.         *)
(***************************************************************************)
\* the schema analysis of the scored page, recomputed from its blocks
PageSchemaAnalysis == analyze_schema_completeness(extract_jsonld(page.blocks))

\* the positions of data.recommendations holding the entry of a rule
EntriesOf(text) ==
    {k \in DOMAIN data.recommendations : data.recommendations[k].text = text}

\* the labels of the checklist, essential fields first, and those of them
\* whose field the analysed record lacks, in that order
ChecklistFields ==
    << "name", "description", "image", "brand", "offers",
       "sku", "gtin", "mpn", "aggregateRating", "review" >>
ChecklistLabels ==
    << "Nom du produit", "Description detaillee", "Images", "Marque",
       "Informations de prix", "SKU/Reference", "Code-barres GTIN/EAN",
       "Numero fabricant", "Note moyenne", "Avis clients" >>
LacksField(k) ==
    LET v == PageSchemaAnalysis.schema.f[ChecklistFields[k]]
    IN  v.kind = "absent" \/ v.n = 0
MissingLabels ==
    LET idx == SelectSeq([k \in DOMAIN ChecklistFields |-> k], LacksField)
    IN  [j \in DOMAIN idx |-> ChecklistLabels[idx[j]]]

\* C22: recommendation rules 1 and 2 are mutually exclusive and exhaustive
\* on their conditions: a page gets the "add Product schema" CRITICAL entry
\* iff no Product schema is found, gets the "complete the schema" CRITICAL
\* entry iff a schema is found and completeness < 70, and never gets both;
\* the second entry cites the first 3 missing-field labels in checklist
\* order (all of them when fewer than 3 are missing).
C22_SchemaRulesExclusive ==
    Scored =>
        LET sa == PageSchemaAnalysis
            add == EntriesOf("Ajouter schema.org Product")
            complete == EntriesOf("Completer le schema Product")
        IN  /\ (add # {}) = ~sa.found
            /\ (complete # {}) = (sa.found /\ sa.completeness < 70)
            /\ ~(add # {} /\ complete # {})
            /\ Cardinality(add) <= 1 /\ Cardinality(complete) <= 1
            /\ \A k \in add \cup complete : data.recommendations[k].priority = "CRITIQUE"
            /\ \A k \in complete :
                LET cited == data.recommendations[k].cited
                IN  /\ Len(cited) = IF Len(MissingLabels) < 3 THEN Len(MissingLabels) ELSE 3
                    /\ \A j \in DOMAIN cited : cited[j][2] = MissingLabels[j]

\* a page whose Product record lacks more than 3 fields and gets the second
\* entry with 3 labels cited
C22_Witness ==
    /\ Scored
    /\ \E k \in EntriesOf("Completer le schema Product") :
        /\ Len(data.recommendations[k].cited) = 3
        /\ Len(MissingLabels) > 3

(***************************************************************************)
(* Properties of the sub-scores, checked under SpecPage.                   *)
(***************************************************************************)
\* the records of the scored page, and what they say about FAQ and breadcrumb
PageRecords == extract_jsonld(page.blocks)
TypedAs(s) ==
    {k \in DOMAIN PageRecords :
        PageRecords[k].type.kind = "str" /\ PageRecords[k].type.names = <<s>>}
FirstFaqQuestions ==
    PageRecords[CHOOSE k \in TypedAs("FAQPage") : \A j \in TypedAs("FAQPage") : k <= j]
        .f["mainEntity"]
FaqPointsOfPage ==
    IF TypedAs("FAQPage") = {} THEN 0
    ELSE IF FirstFaqQuestions.kind = "list" /\ FirstFaqQuestions.n >= 5 THEN 10
    ELSE 5
BreadcrumbPointsOfPage == IF TypedAs("BreadcrumbList") # {} THEN 5 ELSE 0

\* C23: the structured-data sub-score equals floor(completeness * 0.25)
\* when a Product schema is found (0 otherwise), plus 10 if a FAQPage record
\* is well structured, else 5 if a FAQPage record is found, else 0, plus 5
\* if a BreadcrumbList record exists.
C23_StructuredDataScore ==
    Scored =>
        LET sa == PageSchemaAnalysis
            part == data.score_breakdown.structured_data
                    - FaqPointsOfPage - BreadcrumbPointsOfPage
        IN  IF sa.found
            THEN 4 * part <= sa.completeness /\ sa.completeness < 4 * (part + 1)
            ELSE part = 0

\* a page with a Product record of completeness 13 (a quarter of which is
\* not an integer), a well structured FAQPage record and a breadcrumb
C23_Witness ==
    /\ Scored
    /\ PageSchemaAnalysis.found /\ PageSchemaAnalysis.completeness = 13
    /\ FaqPointsOfPage = 10 /\ BreadcrumbPointsOfPage = 5
    /\ data.score_breakdown.structured_data = 18

\* weight w if the signal is true
Weight(w, signal) == IF signal THEN w ELSE 0

\* C24: the content, authority and metadata sub-scores are each the sum of
\* the fixed weights of the signals that are true: content = 10 sufficient
\* content + 5 (h1 and hierarchy) + 3 lists + 5 tables + 3 comparison
\* + 2 usage + 2 specs; authority = 3 author + 3 publish date
\* + 5 certifications + 4 contact; metadata = 5 meta description
\* + 4 Open Graph + 2 Twitter cards + 2 title + 2 canonical.  The signals
\* are read off the page, so has_paragraphs, has_external_links and
\* heading_count change no sub-score.
C24_SubScoresAreWeightedSums ==
    Scored =>
        /\ data.score_breakdown.content_quality =
               Weight(10, page.words >= 300)
               + Weight(5, page.h1 > 0 /\ (page.h2 > 0 \/ page.h3 > 0))
               + Weight(3, page.lists > 0) + Weight(5, page.tables > 0)
               + Weight(3, page.kw_comparison) + Weight(2, page.kw_usage)
               + Weight(2, page.kw_specs)
        /\ data.score_breakdown.authority =
               Weight(3, page.rel_author \/ page.kw_par) + Weight(3, page.time_tags > 0)
               + Weight(5, page.kw_cert) + Weight(4, page.kw_contact)
        /\ data.score_breakdown.metadata =
               Weight(5, page.meta_desc > 50) + Weight(4, page.og_tags >= 3)
               + Weight(2, page.twitter_tags >= 2)
               + Weight(2, 30 <= page.title_len /\ page.title_len <= 70)
               + Weight(2, page.canonical)

\* a page with three paragraphs, an h1 without h2 or h3, and lists: the
\* content sub-score is the 3 points of the lists
C24_Witness ==
    /\ Scored
    /\ data.findings.content_quality.has_paragraphs
    /\ data.findings.content_quality.has_h1
    /\ data.findings.content_quality.heading_count = 1
    /\ data.score_breakdown.content_quality = 3

(***************************************************************************)
(* Properties of extract_jsonld, checked under SpecPage: jsonlds is what   *)
(* score_page extracted from the page's blocks.                            *)
(***************************************************************************)
\* the (block, element) positions of the page that hold an extracted
\* record: the dict elements of a list block, the one dict of a dict block
ExtractedPositions ==
    {p \in UNION {{<<b, e>> : e \in DOMAIN page.blocks[b].items} : b \in DOMAIN page.blocks} :
        /\ page.blocks[p[1]].shape \in {"list", "dict"}
        /\ page.blocks[p[1]].items[p[2]].isdict}

\* document order
Precedes(p, q) == p[1] < q[1] \/ (p[1] = q[1] /\ p[2] <= q[2])
RankOf(p) == Cardinality({q \in ExtractedPositions : Precedes(q, p)})

\* C25: extract_jsonld returns, in document order and without
\* deduplication, the concatenation over the JSON-LD blocks of: the block's
\* dict-shaped elements (in order) when the block parses to a list, the
\* block itself when it parses to a single mapping, and nothing when the
\* block parses to another shape or fails to parse; a malformed block never
\* prevents later blocks from being extracted.
C25_ExtractInDocumentOrder ==
    Scored =>
        /\ Len(jsonlds) = Cardinality(ExtractedPositions)
        /\ \A p \in ExtractedPositions :
            jsonlds[RankOf(p)] = page.blocks[p[1]].items[p[2]].rec

\* a page whose first block fails to parse, whose second is a list with a
\* non-dict element and whose third repeats the record of the second
C25_Witness ==
    /\ Scored
    /\ Len(page.blocks) = 3
    /\ page.blocks[1].shape = "bad"
    /\ page.blocks[2].shape = "list"
    /\ \E e \in DOMAIN page.blocks[2].items : ~page.blocks[2].items[e].isdict
    /\ page.blocks[3].shape = "dict"
    /\ Len(jsonlds) = 2 /\ jsonlds[1] = jsonlds[2]

(***************************************************************************)
(* Scenario B, checked under SpecPage.                                     *)
(***************************************************************************)
\* a scored page with no structured data and fewer than 300 words
BarePageScored == Scored /\ PageRecords = <<>> /\ page.words < 300

\* found is false and the list starts with the schema entry, then the
\* content-length entry
StartsWithBothCriticals ==
    /\ ~data.schema_analysis.found
    /\ Len(data.recommendations) >= 2
    /\ data.recommendations[1].text = "Ajouter schema.org Product"
    /\ data.recommendations[1].priority = "CRITIQUE"
    /\ data.recommendations[2].text = "Enrichir le contenu"
    /\ data.recommendations[2].priority = "CRITIQUE"
    /\ data.recommendations[2].num = page.words

\* C26 as stated: for a page with no structured data and fewer than 300
\* words the total score is contributed only by the authority and metadata
\* sub-scores: the structured-data and content sub-scores are 0.
C26_OnlyAuthorityAndMetadata ==
    BarePageScored =>
        /\ StartsWithBothCriticals
        /\ data.score_breakdown.structured_data = 0
        /\ data.score_breakdown.content_quality = 0
        /\ data.score = data.score_breakdown.authority + data.score_breakdown.metadata

\* C26: for a page with no structured data and fewer than 300 words, schema
\* analysis reports found == false, the recommendation list starts with
\* the schema CRITICAL entry followed by the content-length CRITICAL entry,
\* the structured-data sub-score is 0 and the content sub-score holds none
\* of the 10 points of sufficient content: it is the sum of the weights of
\* the heading, list, table and keyword signals, at most 20.  The total
\* score is the sum of the content, authority and metadata sub-scores.
C26_BarePageScore ==
    BarePageScored =>
        /\ StartsWithBothCriticals
        /\ data.score_breakdown.structured_data = 0
        /\ data.score_breakdown.content_quality =
               Weight(5, page.h1 > 0 /\ (page.h2 > 0 \/ page.h3 > 0))
               + Weight(3, page.lists > 0) + Weight(5, page.tables > 0)
               + Weight(3, page.kw_comparison) + Weight(2, page.kw_usage)
               + Weight(2, page.kw_specs)
        /\ data.score_breakdown.content_quality <= 20
        /\ data.score = data.score_breakdown.content_quality
                        + data.score_breakdown.authority + data.score_breakdown.metadata

\* such a page with a table and a list: 8 content points although short
C26_Witness ==
    /\ BarePageScored
    /\ page.tables > 0 /\ page.lists > 0
    /\ data.score_breakdown.content_quality = 8
    /\ data.score = 8

(***************************************************************************)
(* The FAQ rule, checked under SpecPage.                                   *)
(***************************************************************************)
\* the FAQ analysis of the scored page
PageFaqAnalysis == analyze_faq_schema(PageRecords)

\* C27: the FAQ IMPORTANT recommendation is emitted exactly when no FAQPage
\* record is found or the found one is not well structured, and evaluating
\* this rule never fails: when no FAQPage record exists (the FAQ analysis
\* then has no well_structured field) score_page still completes and emits
\* the recommendation.
C27_FaqRuleNeverFails ==
    /\ pc = "page" => ENABLED ScorePage
    /\ Scored =>
        LET faq == EntriesOf("Ajouter une FAQ structuree")
        IN  /\ Cardinality(faq) <= 1
            /\ (faq # {}) = (FaqPointsOfPage # 10)
            /\ \A k \in faq : data.recommendations[k].priority = "IMPORTANT"
            /\ TypedAs("FAQPage") = {} =>
                   /\ "well_structured" \notin DOMAIN PageFaqAnalysis
                   /\ faq # {}

\* a scored page with records but no FAQPage record, which gets the entry
C27_Witness ==
    /\ Scored
    /\ PageRecords # <<>>
    /\ TypedAs("FAQPage") = {}
    /\ EntriesOf("Ajouter une FAQ structuree") # {}

(***************************************************************************)
(* The per-URL state machine, checked under Spec.                          *)
(***************************************************************************)
\* the terminal outcome a PageResult shows
OutcomeOf(r) ==
    IF r.type # "error" THEN "SCORED"
    ELSE IF r.recommendations = <<RecStr("Page non HTML")>> THEN "SKIPPED"
    ELSE IF r.recommendations = <<RecStr("Erreur")>> THEN "FAILED"
    ELSE "NONE"

\* the outcome the answer of the network calls for
OutcomeFor(f) ==
    IF f.kind = "raise" THEN "FAILED"
    ELSE IF f.ct \notin {"text/html", "text/html; charset=utf-8"} THEN "SKIPPED"
    ELSE IF f.scorable THEN "SCORED" ELSE "FAILED"

\* urls are taken one at a time in list order, one fetch each, and every
\* fetched url has exactly one PageResult, of the outcome of its fetch
OneOutcomePerUrl ==
    /\ Len(fetched) = i /\ i <= Len(urls)
    /\ Len(results) = i
    /\ pc = "loop" => \A k \in 1..i : results[k].url = urls[k]
    /\ pc = "returned" => i = Len(urls)
    /\ \A k \in 1..i :
        /\ Cardinality({j \in DOMAIN results : results[j].url = urls[k]}) = 1
        /\ OutcomeOf(ResultOf(k)) = OutcomeFor(fetched[k])

\* a step fetches at most the next url, keeps the earlier fetches, and keeps
\* every PageResult it found
ResultsNeverChange ==
    /\ i' \in {i, i + 1}
    /\ \A k \in DOMAIN fetched : fetched'[k] = fetched[k]
    /\ \A k \in DOMAIN results : \E j \in DOMAIN results' : results'[j] = results[k]
    /\ (pc = "returned" \/ pc = "no_urls") => (results' = results /\ fetched' = fetched)

\* C28: within one run_audit, urls are processed one at a time in list
\* order; each url is fetched exactly once (no retry after a failure) and
\* ends in exactly one of the terminal outcomes SCORED (text/html response,
\* scored by score_page), SKIPPED (non-HTML content type) or FAILED
\* (exception), after which its PageResult is never changed.
C28_OneTerminalOutcomePerUrl == []OneOutcomePerUrl /\ [][ResultsNeverChange]_vars

\* a finished audit of three urls, one of each outcome, the failed one first
C28_Witness ==
    /\ pc = "returned" /\ Len(fetched) = 3
    /\ OutcomeFor(fetched[1]) = "FAILED"
    /\ {OutcomeOf(ret[k]) : k \in DOMAIN ret} = {"SCORED", "SKIPPED", "FAILED"}

(***************************************************************************)
(* The final sort, checked under Spec.                                     *)
(***************************************************************************)
\* the PageResult the k-th iteration appended, and where the sort put it
AuditedResult(k) == iteration_result(urls[k], fetched[k])
PositionOf(k) == CHOOSE j \in DOMAIN ret : ret[j].url = urls[k]

SameKey(r, q) == (r.type = "product") = (q.type = "product") /\ r.score = q.score

\* C29: the final sort of run_audit is stable and loses nothing: the
\* returned list is a permutation of the per-URL results, and two results
\* with the same (product / non-product, score) key keep the relative order
\* in which their urls were audited.
C29_SortIsStablePermutation ==
    pc = "returned" =>
        /\ Len(ret) = Len(urls)
        /\ \A k \in DOMAIN urls :
            /\ \E j \in DOMAIN ret : ret[j].url = urls[k]
            /\ ret[PositionOf(k)] = AuditedResult(k)
        /\ \A a, b \in DOMAIN urls : a # b => PositionOf(a) # PositionOf(b)
        /\ \A a, b \in DOMAIN urls :
            (a < b /\ SameKey(AuditedResult(a), AuditedResult(b))) =>
                PositionOf(a) < PositionOf(b)

\* a returned list the sort reordered, holding two results of equal key
\* that differ
C29_Witness ==
    /\ pc = "returned" /\ Len(ret) = 3
    /\ ret[1].url # urls[1]
    /\ \E a, b \in DOMAIN urls :
        /\ a < b /\ SameKey(AuditedResult(a), AuditedResult(b))
        /\ AuditedResult(a).recommendations # AuditedResult(b).recommendations

(***************************************************************************)
(* The labels cited by the "complete the schema" entry, checked under      *)
(* SpecSchema over every combination of present fields and offer contents. *)
(***************************************************************************)
\* the critical entries score_page derives from the analysis, on a page of
\* sufficient length
CriticalOfAnalysis ==
    critical_recommendations(analysis, [sufficient_content |-> TRUE, word_count |-> 300])

\* C30: whenever score_page emits the "complete the Product schema"
\* CRITICAL recommendation (schema found and completeness < 70), the
\* missing list of the schema analysis has at least 3 entries, so the
\* recommendation always cites exactly 3 missing-field labels, for every
\* combination of present fields and offer contents.
C30_CompleteEntryCitesThree ==
    (Analysed /\ analysis.completeness < 70) =>
        /\ Len(analysis.missing) >= 3
        /\ Len(CriticalOfAnalysis) = 1
        /\ CriticalOfAnalysis[1].text = "Completer le schema Product"
        /\ Len(CriticalOfAnalysis[1].cited) = 3
        /\ \A j \in 1..3 : CriticalOfAnalysis[1].cited[j] = analysis.missing[j]

\* a record that lacks exactly 3 fields, all essential, and whose offers
\* earn the availability point: 10 points, completeness 66
C30_Witness ==
    /\ Analysed /\ analysis.completeness = 66
    /\ Len(analysis.missing) = 3
    /\ AvailabilityBonus = 1

====
